---- MODULE Spec2Model ----
(***************************************************************************)
(* Model of app.py: the start-up script (polygon load, point-of-interest   *)
(* load, notable-place matcher, Dash application set-up) and the two Dash  *)
(* callbacks update_clicked_markers and update_map.                        *)
(*                                                                         *)
(* Python values whose type the code inspects are tagged records:          *)
(*   None -> [type |-> "None"],  str -> [type |-> "str", val |-> chars],   *)
(*   list -> [type |-> "list", val |-> seq], dict -> [type |-> "dict",     *)
(*   val |-> record].  A string is a sequence of one-character strings.    *)
(***************************************************************************)
EXTENDS Integers, Sequences, FiniteSets, TLC

VARIABLES
    pc,                 \* position of the module-level script
    mode,               \* "script": python app.py; "wsgi": import app, serve app.server
    app,                \* the Dash object the name `app` is bound to (0: unbound)
    server,             \* the Dash object whose Flask server `server` is bound to
    layout,             \* set of Dash objects that have a layout
    callbacks,          \* set of Dash objects with both callbacks registered
    serving,            \* the Dash object being served (0: none)
    gdf,                \* province polygons
    points_gdf,         \* points of interest
    filtered_rows,      \* rows collected by the matcher loop
    notable_df,         \* the Notable Match table (with marker_id)
    loaded,             \* the page has been loaded in the browser
    selected_provinces, \* province-dropdown.value
    clicked_markers,    \* clicked-markers.data
    figure,             \* choropleth-map.figure
    clickData,          \* choropleth-map.clickData
    callback_error,     \* exception raised by the last update_clicked_markers call
    events              \* history: customdata of every click that carried one

vars == <<pc, mode, app, server, layout, callbacks, serving, gdf, points_gdf,
          filtered_rows, notable_df, loaded, selected_provinces,
          clicked_markers, figure, clickData, callback_error, events>>

startup_vars == <<pc, mode, app, server, layout, callbacks, serving, gdf,
                  points_gdf, filtered_rows, notable_df>>

session_vars == <<loaded, selected_provinces, clicked_markers, figure,
                  clickData, callback_error, events>>

(***************************************************************************)
(* Bounds of the model.                                                    *)
(***************************************************************************)
MaxPoints == 2      \* records in an enumerated point-of-interest file
MaxEvents == 3      \* clicks carrying customdata in one session

(***************************************************************************)
(* Python values.                                                          *)
(***************************************************************************)
PyNone == [type |-> "None"]
PyStr(s) == [type |-> "str", val |-> s]
PyList(l) == [type |-> "list", val |-> l]
PyDict(d) == [type |-> "dict", val |-> d]
EmptyDict == [k \in {} |-> 0]

\* bool(v)
Truthy(v) ==
    CASE v.type = "None" -> FALSE
      [] v.type = "dict" -> DOMAIN v.val # {}
      [] OTHER -> Len(v.val) > 0

\* a == b
PyEq(a, b) == a.type = b.type /\ (a.type # "None" => a.val = b.val)

\* x in l, for a list l
PyIn(x, l) == \E i \in 1..Len(l) : PyEq(l[i], x)

Range(s) == {s[i] : i \in 1..Len(s)}

(***************************************************************************)
(* Strings.                                                                *)
(***************************************************************************)
UpperCase == <<"A", "B", "C", "D", "E", "F", "G", "H", "I", "J", "K", "L", "M",
               "N", "O", "P", "Q", "R", "S", "T", "U", "V", "W", "X", "Y", "Z">>
LowerCase == <<"a", "b", "c", "d", "e", "f", "g", "h", "i", "j", "k", "l", "m",
               "n", "o", "p", "q", "r", "s", "t", "u", "v", "w", "x", "y", "z">>
Digits == <<"0", "1", "2", "3", "4", "5", "6", "7", "8", "9">>

Lower(c) ==
    IF \E i \in 1..Len(UpperCase) : UpperCase[i] = c
    THEN LowerCase[CHOOSE i \in 1..Len(UpperCase) : UpperCase[i] = c]
    ELSE c

\* str(n) for n >= 0
RECURSIVE str(_)
str(n) == IF n < 10 THEN <<Digits[n + 1]>> ELSE str(n \div 10) \o <<Digits[(n % 10) + 1]>>

\* sep.join(parts)
RECURSIVE join(_, _)
join(sep, parts) ==
    IF Len(parts) = 0 THEN <<>>
    ELSE IF Len(parts) = 1 THEN parts[1]
    ELSE parts[1] \o sep \o join(sep, Tail(parts))

\* Series.str.contains(place, case=False, na=False) for one name; none of the
\* place names of province_to_places holds a regular-expression metacharacter.
str_contains_case_sensitive(name, place) ==
    /\ name.type = "str"
    /\ \E i \in 0..(Len(name.val) - Len(place)) :
          \A j \in 1..Len(place) : name.val[i + j] = place[j]

str_contains(name, place) ==
    /\ name.type = "str"
    /\ \E i \in 0..(Len(name.val) - Len(place)) :
          \A j \in 1..Len(place) : Lower(name.val[i + j]) = Lower(place[j])

(***************************************************************************)
(* Data: an excerpt of province_to_places, a polygon file and              *)
(* point-of-interest files.  A polygon is an axis-parallel rectangle.      *)
(***************************************************************************)
Ontario == <<"O", "n", "t", "a", "r", "i", "o">>
Quebec == <<"Q", "u", "e", "b", "e", "c">>
CNTower == <<"C", "N", " ", "T", "o", "w", "e", "r">>
NiagaraFalls == <<"N", "i", "a", "g", "a", "r", "a", " ", "F", "a", "l", "l", "s">>
OldQuebec == <<"O", "l", "d", " ", "Q", "u", "e", "b", "e", "c">>
QuebecCity == <<"Q", "u", "e", "b", "e", "c", " ", "C", "i", "t", "y">>

province_to_places ==
    << [prov |-> Ontario, places |-> <<CNTower, NiagaraFalls>>],
       [prov |-> Quebec, places |-> <<OldQuebec, QuebecCity>>] >>

places_of(prov) ==
    (CHOOSE e \in Range(province_to_places) : e.prov = prov).places

\* geoBoundaries-CAN-ADM1_simplified.geojson: Ontario and Quebec share the edge x = 2
geojson_data ==
    << [Province |-> Ontario, geometry |-> [xmin |-> 0, xmax |-> 2, ymin |-> 0, ymax |-> 2]],
       [Province |-> Quebec, geometry |-> [xmin |-> 2, xmax |-> 4, ymin |-> 0, ymax |-> 2]] >>

Point(px, py) == [x |-> px, y |-> py]
InOntario == Point(1, 1)
InQuebec == Point(3, 1)
OnBorder == Point(2, 1)
Positions == {InOntario, InQuebec, OnBorder}

cn_tower_cafe == <<"c", "n", " ", "t", "o", "w", "e", "r", " ", "c", "a", "f", "e">>
OldQuebecCity == <<"O", "l", "d", " ", "Q", "u", "e", "b", "e", "c", " ", "C", "i", "t", "y">>
TimHortons == <<"T", "i", "m", " ", "H", "o", "r", "t", "o", "n", "s">>

PoiNames == <<PyStr(CNTower), PyStr(cn_tower_cafe), PyStr(OldQuebecCity),
              PyStr(TimHortons), PyNone>>

Poi(n, p) == [name |-> n, geometry |-> p]

PoiRecords == {Poi(PoiNames[i], p) : i \in 1..Len(PoiNames), p \in Positions}

\* every point-of-interest file of at most MaxPoints records
AllPoiFiles == UNION {[1..n -> PoiRecords] : n \in 0..MaxPoints}

\* three files for interactive sessions
PoiFiles ==
    { << Poi(PyStr(CNTower), InOntario), Poi(PyStr(cn_tower_cafe), InOntario),
         Poi(PyStr(OldQuebecCity), InQuebec) >>,
      << Poi(PyStr(TimHortons), InOntario), Poi(PyStr(CNTower), InQuebec),
         Poi(PyStr(OldQuebecCity), InQuebec), Poi(PyNone, InOntario) >>,
      << Poi(PyStr(TimHortons), InQuebec), Poi(PyStr(CNTower), OnBorder) >> }

(***************************************************************************)
(* Notable Place Matcher (lines 79-97).                                    *)
(***************************************************************************)
\* gdf[gdf["Province"] == prov].geometry.union_all(): the rectangles of the
\* features named prov (features of one province do not touch in the data)
province_poly_of(g, prov) ==
    {g[i].geometry : i \in {k \in 1..Len(g) : g[k].Province = prov}}

\* Point.within(polygon): the interior, boundary excluded
within(pt, poly) ==
    \E r \in poly : /\ r.xmin < pt.x /\ pt.x < r.xmax
                    /\ r.ymin < pt.y /\ pt.y < r.ymax

\* the loop over matches.iterrows() (lines 85-93), from record i on
RECURSIVE scan_matches(_, _, _, _, _)
scan_matches(prov, place, province_poly, points, i) ==
    IF i > Len(points) THEN <<>>
    ELSE LET row == points[i]
             hit == str_contains(row.name, place) /\ within(row.geometry, province_poly)
         IN  (IF hit THEN << [Province |-> prov, Place |-> place,
                              lat |-> row.geometry.y, lon |-> row.geometry.x] >>
              ELSE <<>>)
             \o scan_matches(prov, place, province_poly, points, i + 1)

\* the loop over places (line 84), from place k on
RECURSIVE scan_places(_, _, _, _, _)
scan_places(prov, places, province_poly, points, k) ==
    IF k > Len(places) THEN <<>>
    ELSE scan_matches(prov, places[k], province_poly, points, 1)
         \o scan_places(prov, places, province_poly, points, k + 1)

\* the loop over province_to_places.items() (line 81), from entry p on
RECURSIVE scan_provinces(_, _, _)
scan_provinces(g, points, p) ==
    IF p > Len(province_to_places) THEN <<>>
    ELSE LET prov == province_to_places[p].prov
         IN  scan_places(prov, province_to_places[p].places,
                         province_poly_of(g, prov), points, 1)
             \o scan_provinces(g, points, p + 1)

\* f"{row['Province']}_{row['Place']}_{row.name}" (line 97); idx is row.name
marker_id_without_index(row, idx) ==
    row.Province \o <<"_">> \o row.Place

marker_id_of(row, idx) ==
    row.Province \o <<"_">> \o row.Place \o <<"_">> \o str(idx)

\* pd.DataFrame(filtered_rows) with the marker_id column (lines 95-97)
with_marker_id(rows) ==
    [i \in 1..Len(rows) |->
        [Province |-> rows[i].Province, Place |-> rows[i].Place,
         lat |-> rows[i].lat, lon |-> rows[i].lon,
         marker_id |-> marker_id_of(rows[i], i - 1)]]

(***************************************************************************)
(* Callback update_clicked_markers (lines 125-134).                        *)
(***************************************************************************)
Return(v) == [exc |-> "none", value |-> v]
Raise(e) == [exc |-> e]

update_clicked_markers_toggle(click, current_clicked) ==
    IF Truthy(click) /\ "points" \in DOMAIN click.val
    THEN IF Len(click.val.points) = 0 THEN Raise("IndexError")
         ELSE LET point == click.val.points[1]
              IN  IF "customdata" \in DOMAIN point.val
                  THEN LET marker_id == point.val.customdata
                       IN  IF ~PyIn(marker_id, current_clicked)
                           THEN Return(current_clicked \o <<marker_id>>)
                           ELSE Return(SelectSeq(current_clicked,
                                                 LAMBDA e : ~PyEq(e, marker_id)))
                  ELSE Return(current_clicked)
    ELSE Return(current_clicked)

update_clicked_markers_front(click, current_clicked) ==
    IF Truthy(click) /\ "points" \in DOMAIN click.val
    THEN IF Len(click.val.points) = 0 THEN Raise("IndexError")
         ELSE LET point == click.val.points[1]
              IN  IF "customdata" \in DOMAIN point.val
                  THEN LET marker_id == point.val.customdata
                       IN  IF ~PyIn(marker_id, current_clicked)
                           THEN Return(<<marker_id>> \o current_clicked)
                           ELSE Return(current_clicked)
                  ELSE Return(current_clicked)
    ELSE Return(current_clicked)

update_clicked_markers_no_dedup(click, current_clicked) ==
    IF Truthy(click) /\ "points" \in DOMAIN click.val
    THEN IF Len(click.val.points) = 0 THEN Raise("IndexError")
         ELSE LET point == click.val.points[1]
              IN  IF "customdata" \in DOMAIN point.val
                  THEN Return(current_clicked \o <<point.val.customdata>>)
                  ELSE Return(current_clicked)
    ELSE Return(current_clicked)

update_clicked_markers(click, current_clicked) ==
    IF Truthy(click) /\ "points" \in DOMAIN click.val
    THEN \* clickData['points'][0]
         IF Len(click.val.points) = 0 THEN Raise("IndexError")
         ELSE LET point == click.val.points[1]
              IN  IF "customdata" \in DOMAIN point.val
                  THEN LET marker_id == point.val.customdata
                       IN  IF ~PyIn(marker_id, current_clicked)
                           THEN Return(current_clicked \o <<marker_id>>)
                           ELSE Return(current_clicked)
                  ELSE Return(current_clicked)
    ELSE Return(current_clicked)

(***************************************************************************)
(* Callback update_map (lines 144-201).  A figure is the sequence of its   *)
(* traces; hover_data of px.choropleth_mapbox becomes the trace's          *)
(* customdata, one [Province, Notable Places] list per polygon.            *)
(***************************************************************************)
choropleth_mapbox(frame, color, opacity) ==
    [type |-> "choroplethmapbox",
     locations |-> [i \in 1..Len(frame) |-> frame[i].Province],
     customdata |-> [i \in 1..Len(frame) |->
                        PyList(<<PyStr(frame[i].Province),
                                 PyStr(frame[i].Notable_Places)>>)],
     color |-> color,
     opacity |-> opacity]

Scattermapbox(marker_subset, marker_colors) ==
    [type |-> "scattermapbox",
     lat |-> [i \in 1..Len(marker_subset) |-> marker_subset[i].lat],
     lon |-> [i \in 1..Len(marker_subset) |-> marker_subset[i].lon],
     color |-> marker_colors,
     text |-> [i \in 1..Len(marker_subset) |-> marker_subset[i].Place],
     customdata |-> [i \in 1..Len(marker_subset) |-> PyStr(marker_subset[i].marker_id)]]

\* frame[frame["Province"].isin(selected)]
isin_filter(frame, selected) ==
    SelectSeq(frame, LAMBDA r : r.Province \in Range(selected.val))

update_map_inverted_colors(selected, clicked) ==
    IF ~Truthy(selected)
    THEN [data |-> <<choropleth_mapbox(gdf, "lightgray", "0.5")>>]
    ELSE LET marker_subset == isin_filter(notable_df, selected)
             marker_colors == [i \in 1..Len(marker_subset) |->
                                  IF PyIn(PyStr(marker_subset[i].marker_id), clicked)
                                  THEN "red" ELSE "green"]
         IN  [data |-> <<choropleth_mapbox(isin_filter(gdf, selected), "blue", "0.7")>>
                       \o (IF Len(marker_subset) # 0
                           THEN <<Scattermapbox(marker_subset, marker_colors)>>
                           ELSE <<>>)]

update_map_always_markers(selected, clicked) ==
    LET marker_subset == IF Truthy(selected) THEN isin_filter(notable_df, selected)
                         ELSE notable_df
        marker_colors == [i \in 1..Len(marker_subset) |->
                             IF PyIn(PyStr(marker_subset[i].marker_id), clicked)
                             THEN "green" ELSE "red"]
        shown == IF Truthy(selected) THEN isin_filter(gdf, selected) ELSE gdf
        color == IF Truthy(selected) THEN "blue" ELSE "lightgray"
        opacity == IF Truthy(selected) THEN "0.7" ELSE "0.5"
    IN  [data |-> <<choropleth_mapbox(shown, color, opacity)>>
                  \o (IF Len(marker_subset) # 0
                      THEN <<Scattermapbox(marker_subset, marker_colors)>>
                      ELSE <<>>)]

update_map(selected, clicked) ==
    IF ~Truthy(selected)
    THEN [data |-> <<choropleth_mapbox(gdf, "lightgray", "0.5")>>]
    ELSE LET marker_subset == isin_filter(notable_df, selected)
             marker_colors == [i \in 1..Len(marker_subset) |->
                                  IF PyIn(PyStr(marker_subset[i].marker_id), clicked)
                                  THEN "green" ELSE "red"]
         IN  [data |-> <<choropleth_mapbox(isin_filter(gdf, selected), "blue", "0.7")>>
                       \o (IF Len(marker_subset) # 0
                           THEN <<Scattermapbox(marker_subset, marker_colors)>>
                           ELSE <<>>)]

(***************************************************************************)
(* The module-level script.                                                *)
(***************************************************************************)
Init ==
    /\ pc = "create_app"
    /\ mode \in {"script", "wsgi"}
    /\ app = 0
    /\ server = 0
    /\ layout = {}
    /\ callbacks = {}
    /\ serving = 0
    /\ gdf = <<>>
    /\ points_gdf = <<>>
    /\ filtered_rows = <<>>
    /\ notable_df = <<>>
    /\ loaded = FALSE
    /\ selected_provinces = PyNone
    /\ clicked_markers = <<>>
    /\ figure = [data |-> <<>>]
    /\ clickData = PyNone
    /\ callback_error = "none"
    /\ events = <<>>

\* lines 18-19: app = dash.Dash(__name__); server = app.server
CreateApp ==
    /\ pc = "create_app"
    /\ app' = 1
    /\ server' = 1
    /\ pc' = "load_polygons"
    /\ UNCHANGED <<mode, layout, callbacks, serving, gdf, points_gdf,
                   filtered_rows, notable_df>>
    /\ UNCHANGED session_vars

\* lines 37-46
LoadPolygons ==
    /\ pc = "load_polygons"
    /\ gdf' = [i \in 1..Len(geojson_data) |->
                  [Province |-> geojson_data[i].Province,
                   geometry |-> geojson_data[i].geometry,
                   Notable_Places |-> <<>>]]
    /\ pc' = "first_main"
    /\ UNCHANGED <<mode, app, server, layout, callbacks, serving, points_gdf,
                   filtered_rows, notable_df>>
    /\ UNCHANGED session_vars

\* lines 50-51 when __name__ == '__main__': app.run_server(...) blocks
RunServerFirst ==
    /\ pc = "first_main"
    /\ mode = "script"
    /\ serving' = app
    /\ pc' = "first_run_server"
    /\ UNCHANGED <<mode, app, server, layout, callbacks, gdf, points_gdf,
                   filtered_rows, notable_df>>
    /\ UNCHANGED session_vars

\* lines 50-51 when the module is imported
SkipServerFirst ==
    /\ pc = "first_main"
    /\ mode = "wsgi"
    /\ pc' = "notable_places"
    /\ UNCHANGED <<mode, app, server, layout, callbacks, serving, gdf,
                   points_gdf, filtered_rows, notable_df>>
    /\ UNCHANGED session_vars

\* the development server stops on a keyboard interrupt and run_server returns
InterruptFirst ==
    /\ pc = "first_run_server"
    /\ serving' = 0
    /\ pc' = "notable_places"
    /\ UNCHANGED <<mode, app, server, layout, callbacks, gdf, points_gdf,
                   filtered_rows, notable_df>>
    /\ UNCHANGED session_vars

\* line 71
AddNotablePlaces ==
    /\ pc = "notable_places"
    /\ gdf' = [i \in 1..Len(gdf) |->
                  [gdf[i] EXCEPT !.Notable_Places =
                      join(<<",", " ">>, places_of(gdf[i].Province))]]
    /\ pc' = "load_points"
    /\ UNCHANGED <<mode, app, server, layout, callbacks, serving, points_gdf,
                   filtered_rows, notable_df>>
    /\ UNCHANGED session_vars

\* lines 73-77
LoadPoints(files) ==
    /\ pc = "load_points"
    /\ \E f \in files : points_gdf' = f
    /\ pc' = "matcher"
    /\ UNCHANGED <<mode, app, server, layout, callbacks, serving, gdf,
                   filtered_rows, notable_df>>
    /\ UNCHANGED session_vars

\* lines 79-93
Matcher ==
    /\ pc = "matcher"
    /\ filtered_rows' = scan_provinces(gdf, points_gdf, 1)
    /\ pc' = "notable_df"
    /\ UNCHANGED <<mode, app, server, layout, callbacks, serving, gdf,
                   points_gdf, notable_df>>
    /\ UNCHANGED session_vars

\* lines 95-97 with at least one row
BuildNotableDf ==
    /\ pc = "notable_df"
    /\ Len(filtered_rows) > 0
    /\ notable_df' = with_marker_id(filtered_rows)
    /\ pc' = "layout"
    /\ UNCHANGED <<mode, app, server, layout, callbacks, serving, gdf,
                   points_gdf, filtered_rows>>
    /\ UNCHANGED session_vars

\* lines 95-97 with no row: apply() on the empty frame returns a frame without
\* columns and the assignment of the marker_id column raises ValueError
BuildNotableDfFails ==
    /\ pc = "notable_df"
    /\ Len(filtered_rows) = 0
    /\ pc' = "ValueError"
    /\ UNCHANGED <<mode, app, server, layout, callbacks, serving, gdf,
                   points_gdf, filtered_rows, notable_df>>
    /\ UNCHANGED session_vars

\* lines 102-115: a second Dash object, with the layout
CreateLayoutApp ==
    /\ pc = "layout"
    /\ app' = 2
    /\ layout' = layout \cup {2}
    /\ pc' = "callbacks"
    /\ UNCHANGED <<mode, server, callbacks, serving, gdf, points_gdf,
                   filtered_rows, notable_df>>
    /\ UNCHANGED session_vars

\* lines 120-201: both @app.callback decorators
RegisterCallbacks ==
    /\ pc = "callbacks"
    /\ callbacks' = callbacks \cup {app}
    /\ pc' = "second_main"
    /\ UNCHANGED <<mode, app, server, layout, serving, gdf, points_gdf,
                   filtered_rows, notable_df>>
    /\ UNCHANGED session_vars

\* lines 207-208 when __name__ == '__main__'
RunServerSecond ==
    /\ pc = "second_main"
    /\ mode = "script"
    /\ serving' = app
    /\ pc' = "serving"
    /\ UNCHANGED <<mode, app, server, layout, callbacks, gdf, points_gdf,
                   filtered_rows, notable_df>>
    /\ UNCHANGED session_vars

\* the import is over and the WSGI server serves the exported `server` (line 19)
ServeExported ==
    /\ pc = "second_main"
    /\ mode = "wsgi"
    /\ serving' = server
    /\ pc' = "serving"
    /\ UNCHANGED <<mode, app, server, layout, callbacks, gdf, points_gdf,
                   filtered_rows, notable_df>>
    /\ UNCHANGED session_vars

Startup(files) ==
    \/ CreateApp
    \/ LoadPolygons
    \/ RunServerFirst
    \/ SkipServerFirst
    \/ InterruptFirst
    \/ AddNotablePlaces
    \/ LoadPoints(files)
    \/ Matcher
    \/ BuildNotableDf
    \/ BuildNotableDfFails
    \/ CreateLayoutApp
    \/ RegisterCallbacks
    \/ RunServerSecond
    \/ ServeExported

(***************************************************************************)
(* One browser session on the served application.                          *)
(***************************************************************************)
Interactive == serving # 0 /\ serving \in layout /\ serving \in callbacks

\* sorted(gdf['Province'].unique()) (line 108) and the values a multi
\* dropdown can hold: None, or a list of distinct options
dropdown_options == Range([i \in 1..Len(gdf) |-> gdf[i].Province])

dropdown_values ==
    {PyNone} \cup
    {PyList(s) : s \in {q \in UNION {[1..n -> dropdown_options] :
                                       n \in 0..Cardinality(dropdown_options)} :
                          \A i, j \in 1..Len(q) : i # j => q[i] # q[j]}}

\* the clickData a click on point k of trace t of the figure produces
click_on(fig, t, k) ==
    PyDict([points |-> << PyDict([curveNumber |-> t - 1,
                                  pointNumber |-> k - 1,
                                  customdata |-> fig.data[t].customdata[k]]) >>])

\* payloads no click on the figure produces
incomplete_payloads ==
    << PyNone,
       PyDict(EmptyDict),
       PyDict([curveNumber |-> 0]),
       PyDict([points |-> <<>>]),
       PyDict([points |-> << PyDict([curveNumber |-> 0, pointNumber |-> 0]) >>]) >>

\* the first page load fires both callbacks with the layout's initial values
PageLoad ==
    /\ Interactive
    /\ ~loaded
    /\ loaded' = TRUE
    /\ LET r == update_clicked_markers(PyNone, <<>>)
       IN  /\ clicked_markers' = r.value
           /\ figure' = update_map(PyNone, r.value)
    /\ selected_provinces' = PyNone
    /\ clickData' = PyNone
    /\ callback_error' = "none"
    /\ UNCHANGED events
    /\ UNCHANGED startup_vars

\* province-dropdown.value changes: update_map runs
SelectProvinces ==
    /\ Interactive
    /\ loaded
    /\ \E v \in dropdown_values :
          /\ selected_provinces' = v
          /\ figure' = update_map(v, clicked_markers)
    /\ UNCHANGED <<loaded, clicked_markers, clickData, callback_error, events>>
    /\ UNCHANGED startup_vars

\* choropleth-map.clickData changes: update_clicked_markers runs and, when it
\* returns, the new clicked-markers.data triggers update_map
Dispatch(payload) ==
    LET r == update_clicked_markers(payload, clicked_markers)
    IN  /\ clickData' = payload
        /\ callback_error' = r.exc
        /\ IF r.exc = "none"
           THEN /\ clicked_markers' = r.value
                /\ figure' = update_map(selected_provinces, r.value)
           ELSE UNCHANGED <<clicked_markers, figure>>

\* a click on a marker or on a province polygon of the rendered figure
ClickFigure ==
    /\ Interactive
    /\ loaded
    /\ Len(events) < MaxEvents
    /\ \E t \in 1..Len(figure.data) :
          \E k \in 1..Len(figure.data[t].customdata) :
             /\ Dispatch(click_on(figure, t, k))
             /\ events' = Append(events, figure.data[t].customdata[k])
    /\ UNCHANGED <<loaded, selected_provinces>>
    /\ UNCHANGED startup_vars

\* an update request with an incomplete click payload
IncompleteClick ==
    /\ Interactive
    /\ loaded
    /\ \E n \in 1..Len(incomplete_payloads) : Dispatch(incomplete_payloads[n])
    /\ UNCHANGED <<loaded, selected_provinces, events>>
    /\ UNCHANGED startup_vars

Next ==
    \/ Startup(PoiFiles)
    \/ PageLoad
    \/ SelectProvinces
    \/ ClickFigure
    \/ IncompleteClick

Spec == Init /\ [][Next]_vars

\* the start-up script alone, over every bounded point-of-interest file
MatcherNext == Startup(AllPoiFiles)

MatcherSpec == Init /\ [][MatcherNext]_vars

(***************************************************************************)
(* Properties.                                                             *)
(***************************************************************************)
SeqEq(a, b) == Len(a) = Len(b) /\ \A i \in 1..Len(a) : PyEq(a[i], b[i])

IsMarkerClick(e) == e.type = "str"

Carries(payload, m) ==
    /\ payload.type = "dict"
    /\ "points" \in DOMAIN payload.val
    /\ Len(payload.val.points) > 0
    /\ "customdata" \in DOMAIN payload.val.points[1].val
    /\ PyEq(payload.val.points[1].val.customdata, m)

IsIncomplete(payload) ==
    \/ payload.type = "None"
    \/ "points" \notin DOMAIN payload.val
    \/ Len(payload.val.points) = 0
    \/ "customdata" \notin DOMAIN payload.val.points[1].val

IdOf(prov, place, idx) == PyStr(prov \o <<"_">> \o place \o <<"_">> \o <<Digits[idx + 1]>>)

\* C1: a click carrying markerId m turns the list L into L with m appended
\* at the end when m is not in L, and leaves it exactly L when m is in L.
C1_ReducerStep ==
    [][ (Len(events') = Len(events) + 1 /\ IsMarkerClick(events'[Len(events')]))
        => LET m == events'[Len(events')]
               L == clicked_markers
           IN  /\ Carries(clickData', m)
               /\ callback_error' = "none"
               /\ IF \E i \in 1..Len(L) : PyEq(L[i], m)
                  THEN SeqEq(clicked_markers', L)
                  ELSE /\ Len(clicked_markers') = Len(L) + 1
                       /\ \A i \in 1..Len(L) : PyEq(clicked_markers'[i], L[i])
                       /\ PyEq(clicked_markers'[Len(L) + 1], m) ]_vars

\* a second marker was appended behind a first one, then clicked again
C1_Witness ==
    /\ Len(events) = 3
    /\ \A i \in 1..3 : IsMarkerClick(events[i])
    /\ ~PyEq(events[1], events[2])
    /\ PyEq(events[2], events[3])
    /\ Len(clicked_markers) = 2
    /\ Carries(clickData, events[3])

\* C2: the clicked-marker list only grows at its end, whatever the event
\* (marker click, other click, dropdown change, re-render), and every click
\* the rendered figure can produce is accepted by the reducer.
C2_AppendOnly ==
    /\ [][ /\ Len(clicked_markers) <= Len(clicked_markers')
           /\ \A i \in 1..Len(clicked_markers) :
                 PyEq(clicked_markers'[i], clicked_markers[i]) ]_vars
    /\ [](loaded =>
            \A t \in 1..Len(figure.data) :
               \A k \in 1..Len(figure.data[t].customdata) :
                  update_clicked_markers(click_on(figure, t, k), clicked_markers).exc = "none")

\* a marker already in a list of two is clicked again under another selection
C2_Witness ==
    /\ Len(events) = 3
    /\ Len(clicked_markers) = 2
    /\ PyEq(events[3], clicked_markers[1])
    /\ selected_provinces.type = "list"
    /\ Len(selected_provinces.val) = 2

\* C3: every element of the clicked-marker list is the markerId of a row of
\* the Notable Match table (a click that is not on a marker changes nothing).
C3_OnlyMarkerIds ==
    \A i \in 1..Len(clicked_markers) :
       \E r \in 1..Len(notable_df) :
          PyEq(clicked_markers[i], PyStr(notable_df[r].marker_id))

\* C4: an incomplete click payload leaves the list unchanged and raises nothing.
C4_IncompleteIsNoOp ==
    [][ (loaded /\ IsIncomplete(clickData'))
        => /\ callback_error' = "none"
           /\ SeqEq(clicked_markers', clicked_markers) ]_vars

\* C5: after marker clicks only, the list is the distinct markerIds clicked,
\* in the order of each id's first click.
RECURSIVE first_clicks(_, _)
first_clicks(e, i) ==
    IF i > Len(e) THEN <<>>
    ELSE (IF \E j \in 1..(i - 1) : PyEq(e[j], e[i]) THEN <<>> ELSE <<e[i]>>)
         \o first_clicks(e, i + 1)

C5_FirstClickOrder ==
    (\A i \in 1..Len(events) : IsMarkerClick(events[i]))
    => SeqEq(clicked_markers, first_clicks(events, 1))

\* a Quebec marker, then an Ontario marker, then the Quebec marker again
C5_Witness ==
    /\ Len(events) = 3
    /\ PyEq(events[1], IdOf(Quebec, OldQuebec, 2))
    /\ PyEq(events[2], IdOf(Ontario, CNTower, 0))
    /\ PyEq(events[3], events[1])
    /\ Len(clicked_markers) = 2
    /\ PyEq(clicked_markers[1], events[1])

\* C6: with a non-empty selection the marker layer holds exactly the rows of
\* the selected provinces, each with its markerId as customdata, green if the
\* markerId is in the clicked list and red otherwise.
selected_rows ==
    SelectSeq(notable_df,
              LAMBDA r : \E i \in 1..Len(selected_provinces.val) :
                            selected_provinces.val[i] = r.Province)

marker_layers ==
    SelectSeq(figure.data, LAMBDA tr : tr.type = "scattermapbox")

C6_MarkerLayer ==
    (loaded /\ Truthy(selected_provinces))
    => LET rows == selected_rows
           layers == marker_layers
       IN  /\ Len(layers) = (IF Len(rows) = 0 THEN 0 ELSE 1)
           /\ \A n \in 1..Len(layers) :
                 /\ Len(layers[n].customdata) = Len(rows)
                 /\ Len(layers[n].color) = Len(rows)
                 /\ \A i \in 1..Len(rows) :
                       /\ PyEq(layers[n].customdata[i], PyStr(rows[i].marker_id))
                       /\ layers[n].lat[i] = rows[i].lat
                       /\ layers[n].lon[i] = rows[i].lon
                       /\ layers[n].color[i] \in {"green", "red"}
                       /\ layers[n].color[i] = "green"
                            <=> \E c \in 1..Len(clicked_markers) :
                                   PyEq(clicked_markers[c], PyStr(rows[i].marker_id))

\* Ontario alone is selected and exactly one of its two markers was clicked
C6_Witness ==
    /\ loaded
    /\ selected_provinces.type = "list"
    /\ selected_provinces.val = <<Ontario>>
    /\ Len(clicked_markers) = 1
    /\ Len(figure.data) = 2
    /\ figure.data[2].color = <<"red", "green">>

\* C7: without a selection the figure is one polygon layer of all provinces
\* and no marker layer, whatever the clicked list holds.
C7_NoSelection ==
    (loaded /\ ~Truthy(selected_provinces))
    => /\ Len(figure.data) = 1
       /\ figure.data[1].type = "choroplethmapbox"
       /\ figure.data[1].locations = [i \in 1..Len(gdf) |-> gdf[i].Province]
       /\ figure.data[1].color = "lightgray"
       /\ figure.data[1].opacity = "0.5"

\* the selection was cleared after two clicks
C7_Witness ==
    /\ loaded
    /\ selected_provinces.type = "list"
    /\ Len(selected_provinces.val) = 0
    /\ Len(clicked_markers) = 2
    /\ Len(figure.data) = 1

\* C8: the table holds exactly one row for every (province, declared place,
\* point record) whose name contains the place, case ignored, and whose
\* position lies strictly inside the province's polygon.
lower_seq(s) == [i \in 1..Len(s) |-> Lower(s[i])]

name_has(name, place) ==
    /\ name.type = "str"
    /\ \E a \in 1..(Len(name.val) - Len(place) + 1) :
          lower_seq(SubSeq(name.val, a, a + Len(place) - 1)) = lower_seq(place)

inside(pos, prov) ==
    \E f \in 1..Len(gdf) :
       /\ gdf[f].Province = prov
       /\ gdf[f].geometry.xmin < pos.x /\ pos.x < gdf[f].geometry.xmax
       /\ gdf[f].geometry.ymin < pos.y /\ pos.y < gdf[f].geometry.ymax

match_triples ==
    {t \in UNION {{p} \X (1..Len(province_to_places[p].places)) \X (1..Len(points_gdf)) :
                    p \in 1..Len(province_to_places)} :
        /\ name_has(points_gdf[t[3]].name, province_to_places[t[1]].places[t[2]])
        /\ inside(points_gdf[t[3]].geometry, province_to_places[t[1]].prov)}

matcher_done == pc \notin {"create_app", "load_polygons", "first_main",
                           "first_run_server", "notable_places", "load_points",
                           "matcher"}

C8_ExactlyTheMatches ==
    matcher_done
    => LET triples == match_triples
       IN  /\ Len(filtered_rows) = Cardinality(triples)
           /\ \A p \in 1..Len(province_to_places) :
                 \A k \in 1..Len(province_to_places[p].places) :
                    \A pos \in Positions :
                       Cardinality({r \in 1..Len(filtered_rows) :
                                       /\ filtered_rows[r].Province = province_to_places[p].prov
                                       /\ filtered_rows[r].Place = province_to_places[p].places[k]
                                       /\ filtered_rows[r].lon = pos.x
                                       /\ filtered_rows[r].lat = pos.y})
                       = Cardinality({t \in triples :
                                         /\ t[1] = p /\ t[2] = k
                                         /\ points_gdf[t[3]].geometry = pos})
           /\ \A r \in 1..Len(filtered_rows) :
                 inside(Point(filtered_rows[r].lon, filtered_rows[r].lat),
                        filtered_rows[r].Province)

\* a lower-case name matching one place and a name matching two places
C8_Witness ==
    /\ matcher_done
    /\ points_gdf = << Poi(PyStr(cn_tower_cafe), InOntario),
                       Poi(PyStr(OldQuebecCity), InQuebec) >>
    /\ Len(filtered_rows) = 3

\* C9: no two rows of the table have the same markerId.
C9_UniqueMarkerIds ==
    \A i, j \in 1..Len(notable_df) :
       i # j => notable_df[i].marker_id # notable_df[j].marker_id

\* two records matched the same (province, place) pair
C9_Witness ==
    /\ Len(notable_df) = 2
    /\ notable_df[1].Province = notable_df[2].Province
    /\ notable_df[1].Place = notable_df[2].Place

\* C10: whenever an application is served, the match table is built and the
\* served application carries the layout and both callbacks.
C10_ServeAfterSetup ==
    serving # 0
    => /\ pc = "serving"
       /\ serving \in layout
       /\ serving \in callbacks

====
